---- MODULE Spec2Model ----
(***************************************************************************)
(* Model of the two request handlers of the repository:                    *)
(*   pages/api/proxy.js     fetch a page, absolutize its links, inject a    *)
(*                          probe script                                    *)
(*   pages/api/download.js  HEAD, then redirect (large) or relay the body   *)
(*                                                                         *)
(* Text is modelled as a sequence of tokens.  A token is an indivisible    *)
(* piece of text: a scheme with its colon ("http:"), one of the            *)
(* delimiters "/", "?", "#", ".", " ", or a run of plain characters.        *)
(* A double-dot path segment is the two tokens ".", ".".                    *)
(***************************************************************************)
EXTENDS Integers, Sequences, FiniteSets, TLC

\* ------------------------------------------------------------------------
\* Sequence helpers
\* ------------------------------------------------------------------------

Front(s) == SubSeq(s, 1, Len(s) - 1)

Drop(s, n) == SubSeq(s, n + 1, Len(s))

Last(s) == s[Len(s)]

\* Index of the first element of s that lies in D, or Len(s) + 1.
RECURSIVE FirstIn(_, _, _)
FirstIn(s, D, i) ==
    IF i > Len(s) THEN Len(s) + 1
    ELSE IF s[i] \in D THEN i
    ELSE FirstIn(s, D, i + 1)

\* s split at every occurrence of the token d (n occurrences give n + 1 pieces).
RECURSIVE SplitOn(_, _)
SplitOn(s, d) ==
    LET i == FirstIn(s, {d}, 1)
    IN  IF i > Len(s) THEN <<s>>
        ELSE <<SubSeq(s, 1, i - 1)>> \o SplitOn(Drop(s, i), d)

\* ------------------------------------------------------------------------
\* WHATWG URL, as implemented by Node's `URL` (import { URL } from 'url')
\* ------------------------------------------------------------------------

SchemeToks == {"http:", "HTTP:", "https:", "ftp:", "foo:",
               "data:", "DATA:", "mailto:", "javascript:", "JavaScript:"}

SpecialSchemes == {"http:", "https:", "ftp:"}

\* ASCII lower-casing of a token (scheme and host of a special URL).
ToLower(t) ==
    CASE t = "HTTP:"       -> "http:"
      [] t = "DATA:"       -> "data:"
      [] t = "JavaScript:" -> "javascript:"
      [] t = "LOCALHOST"   -> "localhost"
      [] t = "Internal"    -> "internal"
      [] t = "EXAMPLE"     -> "example"
      [] OTHER             -> t

LowerSeq(s) == [i \in 1..Len(s) |-> ToLower(s[i])]

\* Leading and trailing spaces are removed before parsing.
RECURSIVE StripLeft(_)
StripLeft(s) == IF s # <<>> /\ Head(s) = " " THEN StripLeft(Tail(s)) ELSE s

RECURSIVE StripRight(_)
StripRight(s) == IF s # <<>> /\ Last(s) = " " THEN StripRight(Front(s)) ELSE s

Strip(s) == StripRight(StripLeft(s))

RECURSIVE SkipSlashes(_)
SkipSlashes(s) == IF s # <<>> /\ Head(s) = "/" THEN SkipSlashes(Tail(s)) ELSE s

\* Percent-encoding of a space outside the host and outside an opaque path.
Encode(s) == [i \in 1..Len(s) |-> IF s[i] = " " THEN "%20" ELSE s[i]]

\* Decimal labels of an IPv4 address that the model knows the value of.
NumToks == {"0", "1", "5", "10", "127", "168", "192", "255"}

NumVal(t) ==
    CASE t = "0" -> 0 [] t = "1" -> 1 [] t = "5" -> 5 [] t = "10" -> 10
      [] t = "127" -> 127 [] t = "168" -> 168 [] t = "192" -> 192
      [] t = "255" -> 255 [] OTHER -> 0

NumTok(n) ==
    CASE n = 0 -> "0" [] n = 1 -> "1" [] n = 5 -> "5" [] n = 10 -> "10"
      [] n = 127 -> "127" [] n = 168 -> "168" [] n = 192 -> "192"
      [] n = 255 -> "255" [] OTHER -> "0"

URLFailure ==
    [ok |-> FALSE, scheme |-> "", hasHost |-> FALSE, host |-> <<>>,
     opaque |-> FALSE, path |-> <<>>, hasQuery |-> FALSE, query |-> <<>>,
     hasFrag |-> FALSE, frag |-> <<>>]

\* A host's labels: one trailing dot is dropped before the IPv4 test.
Labels(raw) == IF Len(raw) > 1 /\ Last(raw) = <<>> THEN Front(raw) ELSE raw

IsNum(label) == Len(label) = 1 /\ label[1] \in NumToks

\* Byte i of the IPv4 address written with the n = Len(labels) parts: the
\* last part fills the remaining bytes (127.1 is 127.0.0.1).
Byte(labels, i) ==
    IF i < Len(labels) THEN NumVal(labels[i][1])
    ELSE IF i = 4 THEN NumVal(Last(labels)[1])
    ELSE 0

HostOfLabels(low, labels) ==
    IF ~IsNum(Last(labels)) THEN [ok |-> TRUE, host |-> low]
    ELSE IF Len(labels) > 4 \/ \E i \in 1..Len(labels) : ~IsNum(labels[i])
    THEN [ok |-> FALSE, host |-> <<>>]
    ELSE [ok |-> TRUE,
          host |-> <<NumTok(Byte(labels, 1)), ".", NumTok(Byte(labels, 2)), ".",
                     NumTok(Byte(labels, 3)), ".", NumTok(Byte(labels, 4))>>]

\* The host parser: [ok, host].  A special scheme's host is lower-cased, may
\* not be empty, and is an IPv4 address when its last label is a number; any
\* other scheme's host is opaque.  A space is a forbidden host code point.
ParseHost(h, special) ==
    IF \E i \in 1..Len(h) : h[i] = " " THEN [ok |-> FALSE, host |-> <<>>]
    ELSE IF ~special THEN [ok |-> TRUE, host |-> h]
    ELSE IF h = <<>> THEN [ok |-> FALSE, host |-> <<>>]
    ELSE HostOfLabels(LowerSeq(h), Labels(SplitOn(LowerSeq(h), ".")))

IsSingleDot(seg) == seg = <<".">>

IsDoubleDot(seg) == seg = <<".", ".">>

\* The path state: each segment is appended, a single dot is dropped, a
\* double dot removes the last segment; a dot segment in last position
\* leaves an empty last segment.
RECURSIVE PathSegments(_, _)
PathSegments(path, segs) ==
    IF segs = <<>> THEN path
    ELSE PathSegments(
           IF IsDoubleDot(Head(segs))
           THEN (IF path = <<>> THEN <<>> ELSE Front(path))
                \o (IF Len(segs) = 1 THEN << <<>> >> ELSE <<>>)
           ELSE IF IsSingleDot(Head(segs))
           THEN path \o (IF Len(segs) = 1 THEN << <<>> >> ELSE <<>>)
           ELSE Append(path, Encode(Head(segs))),
           Tail(segs))

CutQ(bq, q, hasFrag, frag) ==
    [body     |-> SubSeq(bq, 1, q - 1),
     hasQuery |-> q <= Len(bq),
     query    |-> Encode(Drop(bq, q)),
     hasFrag  |-> hasFrag,
     frag     |-> Encode(frag)]

CutF(s, h) ==
    CutQ(SubSeq(s, 1, h - 1), FirstIn(SubSeq(s, 1, h - 1), {"?"}, 1),
         h <= Len(s), Drop(s, h))

\* s cut into [body, hasQuery, query, hasFrag, frag] at its first "?" and "#".
CutQF(s) == CutF(s, FirstIn(s, {"#"}, 1))

PathURL(scheme, hasHost, host, path, c) ==
    [ok |-> TRUE, scheme |-> scheme, hasHost |-> hasHost, host |-> host,
     opaque |-> FALSE, path |-> path,
     hasQuery |-> c.hasQuery, query |-> c.query,
     hasFrag |-> c.hasFrag, frag |-> c.frag]

PathOf(scheme, init, c, afterSlash) ==
    IF ~afterSlash /\ c.body = <<>> /\ scheme \notin SpecialSchemes
    THEN init
    ELSE PathSegments(init, SplitOn(c.body, "/"))

\* The path start and path states: `s` is what follows the authority (or the
\* scheme, or the base's directory), `init` the path to extend, afterSlash
\* whether a "/" was consumed before s.
ParsePathFrom(scheme, hasHost, host, init, s, afterSlash) ==
    PathURL(scheme, hasHost, host, PathOf(scheme, init, CutQF(s), afterSlash),
            CutQF(s))

AuthorityURL(scheme, h, rest) ==
    IF ~h.ok THEN URLFailure
    ELSE ParsePathFrom(scheme, TRUE, h.host, <<>>,
                       IF rest # <<>> /\ Head(rest) = "/" THEN Tail(rest) ELSE rest,
                       rest # <<>> /\ Head(rest) = "/")

AuthorityAt(scheme, s, e) ==
    AuthorityURL(scheme, ParseHost(SubSeq(s, 1, e - 1), scheme \in SpecialSchemes),
                 Drop(s, e - 1))

\* The authority state followed by the path start state.
ParseAuthority(scheme, s) == AuthorityAt(scheme, s, FirstIn(s, {"/", "?", "#"}, 1))

WithCut(base, c, keepQuery) ==
    [base EXCEPT !.hasQuery = IF keepQuery THEN @ ELSE c.hasQuery,
                 !.query = IF keepQuery THEN @ ELSE c.query,
                 !.hasFrag = c.hasFrag, !.frag = c.frag]

\* The relative states: `s` carries no scheme and `base` has a path list.
ParseRelative(s, base) ==
    IF s = <<>> THEN [base EXCEPT !.hasFrag = FALSE, !.frag = <<>>]
    ELSE IF Len(s) >= 2 /\ s[1] = "/" /\ s[2] = "/" THEN
      ParseAuthority(base.scheme,
                     IF base.scheme \in SpecialSchemes
                     THEN SkipSlashes(s) ELSE Drop(s, 2))
    ELSE IF Head(s) \in {"?", "#"} THEN WithCut(base, CutQF(s), Head(s) = "#")
    ELSE ParsePathFrom(base.scheme, base.hasHost, base.host,
                       IF Head(s) = "/" \/ base.path = <<>>
                       THEN <<>> ELSE Front(base.path),
                       IF Head(s) = "/" THEN Tail(s) ELSE s,
                       TRUE)

OpaqueURL(scheme, c) ==
    [ok |-> TRUE, scheme |-> scheme, hasHost |-> FALSE, host |-> <<>>,
     opaque |-> TRUE, path |-> << c.body >>,
     hasQuery |-> c.hasQuery, query |-> c.query,
     hasFrag |-> c.hasFrag, frag |-> c.frag]

TwoSlashes(s) == Len(s) >= 2 /\ s[1] = "/" /\ s[2] = "/"

\* The input `s`, stripped, begins with a scheme.
ParseAbsolute(scheme, rest, hasBase, base) ==
    IF scheme \in SpecialSchemes /\ hasBase /\ base.scheme = scheme
       /\ ~TwoSlashes(rest)
    THEN "relative"
    ELSE IF scheme \in SpecialSchemes \/ TwoSlashes(rest) THEN "authority"
    ELSE IF rest # <<>> /\ Head(rest) = "/" THEN "path"
    ELSE "opaque"

\* The state the parser goes to after the scheme start and scheme states.
FirstState(s, hasBase, base) ==
    IF s # <<>> /\ Head(s) \in SchemeToks
    THEN ParseAbsolute(ToLower(Head(s)), Tail(s), hasBase, base)
    ELSE IF ~hasBase THEN "failure"
    ELSE IF ~base.opaque THEN "relative"
    ELSE IF s # <<>> /\ Head(s) = "#" THEN "fragment"
    ELSE "failure"

ParseFrom(state, s, rest, scheme, base) ==
    CASE state = "failure"   -> URLFailure
      [] state = "fragment"  -> WithCut(base, CutQF(s), TRUE)
      [] state = "relative"  ->
           ParseRelative(IF s # <<>> /\ Head(s) \in SchemeToks THEN rest ELSE s,
                         base)
      [] state = "authority" ->
           ParseAuthority(scheme,
                          IF scheme \in SpecialSchemes
                          THEN SkipSlashes(rest) ELSE Drop(rest, 2))
      [] state = "path"      ->
           ParsePathFrom(scheme, FALSE, <<>>, <<>>, Tail(rest), TRUE)
      [] OTHER               -> OpaqueURL(scheme, CutQF(rest))

ParseStripped(s, hasBase, base) ==
    ParseFrom(FirstState(s, hasBase, base), s,
              IF s = <<>> THEN <<>> ELSE Tail(s),
              IF s = <<>> THEN "" ELSE ToLower(Head(s)),
              base)

\* new URL(input, base): `hasBase` is FALSE for the one-argument form.
ParseURL(input, hasBase, base) == ParseStripped(Strip(input), hasBase, base)

RECURSIVE SlashJoin(_)
SlashJoin(path) ==
    IF path = <<>> THEN <<>> ELSE <<"/">> \o Head(path) \o SlashJoin(Tail(path))

\* url.toString(): the URL serializer.
Href(u) ==
    <<u.scheme>>
    \o (IF u.hasHost THEN <<"/", "/">> \o u.host ELSE <<>>)
    \o (IF u.opaque THEN u.path[1]
        ELSE (IF ~u.hasHost /\ Len(u.path) > 1 /\ u.path[1] = <<>>
              THEN <<"/", ".">> ELSE <<>>)
             \o SlashJoin(u.path))
    \o (IF u.hasQuery THEN <<"?">> \o u.query ELSE <<>>)
    \o (IF u.hasFrag THEN <<"#">> \o u.frag ELSE <<>>)

\* url.hostname ('' when the URL has no host).
Hostname(u) == IF u.hasHost THEN u.host ELSE <<>>

\* url.pathname.
Pathname(u) == IF u.opaque THEN u.path[1] ELSE SlashJoin(u.path)

\* ------------------------------------------------------------------------
\* HTML rewriting (proxy.js, makeAbs)
\* ------------------------------------------------------------------------

\* The prefix test without the i flag.
SkipPrefixCaseSensitive(val) ==
    /\ val # <<>>
    /\ Head(val) \in {"data:", "mailto:", "javascript:", "#"}

\* /^(data:|mailto:|javascript:|#)/i.test(val)
SkipPrefix(val) ==
    /\ val # <<>>
    /\ \/ ToLower(Head(val)) \in {"data:", "mailto:", "javascript:"}
       \/ Head(val) = "#"

\* try { abs = new URL(val, base).toString() } catch (e) { /* ignore */ }
HrefOr(abs, val) == IF abs.ok THEN Href(abs) ELSE val

\* The body of the .each callback for one element whose attribute `attr` has
\* the value val: the new value of the attribute.
MakeAbsValue(val, base) ==
    IF val = <<>> THEN val
    ELSE IF SkipPrefix(val) THEN val
    ELSE HrefOr(ParseURL(val, TRUE, base), val)

\* An element is [tag, attr, val]: a tag carrying one attribute.  $(el).attr
\* of another attribute name is undefined, and the callback returns.
MakeAbsElement(el, elAttr, attr, base) ==
    IF el.tag = elAttr /\ el.attr = attr
    THEN [el EXCEPT !.val = MakeAbsValue(el.val, base)]
    ELSE el

\* makeAbs(0, elAttr, attr) over the whole document.
makeAbs(doc, elAttr, attr, base) ==
    [i \in 1..Len(doc) |-> MakeAbsElement(doc[i], elAttr, attr, base)]

\* The six calls of makeAbs, in the order of the source.
Calls ==
    << [tag |-> "a",      attr |-> "href"],
       [tag |-> "img",    attr |-> "src"],
       [tag |-> "script", attr |-> "src"],
       [tag |-> "link",   attr |-> "href"],
       [tag |-> "video",  attr |-> "src"],
       [tag |-> "source", attr |-> "src"] >>

RECURSIVE RewriteFrom(_, _, _)
RewriteFrom(doc, base, k) ==
    IF k > Len(Calls) THEN doc
    ELSE RewriteFrom(makeAbs(doc, Calls[k].tag, Calls[k].attr, base), base, k + 1)

RewriteAll(doc, base) == RewriteFrom(doc, base, 1)

\* ------------------------------------------------------------------------
\* download.js helpers
\* ------------------------------------------------------------------------

Threshold == 30 * 1024 * 1024

DigitVal(c) ==
    CASE c = "0" -> 0 [] c = "1" -> 1 [] c = "2" -> 2 [] c = "3" -> 3
      [] c = "4" -> 4 [] c = "5" -> 5 [] c = "6" -> 6 [] c = "7" -> 7
      [] c = "8" -> 8 [] c = "9" -> 9
      [] c \in {"a", "A"} -> 10 [] c \in {"b", "B"} -> 11
      [] c \in {"c", "C"} -> 12 [] c \in {"d", "D"} -> 13
      [] c \in {"e", "E"} -> 14 [] c \in {"f", "F"} -> 15
      [] OTHER -> 99

\* The longest prefix of s made of digits of the radix, read as a number:
\* [n, v] with n the number of digits read.
RECURSIVE ReadDigits(_, _, _, _)
ReadDigits(s, radix, n, v) ==
    IF s # <<>> /\ DigitVal(Head(s)) < radix
    THEN ReadDigits(Tail(s), radix, n + 1, v * radix + DigitVal(Head(s)))
    ELSE [n |-> n, v |-> v]

\* parseInt(s) of a string of characters, without a radix argument:
\* [nan, v].
IntOf(neg, d) ==
    IF d.n = 0 THEN [nan |-> TRUE, v |-> 0]
    ELSE [nan |-> FALSE, v |-> IF neg THEN 0 - d.v ELSE d.v]

Unsigned(neg, u) ==
    IntOf(neg,
          IF Len(u) >= 2 /\ u[1] = "0" /\ u[2] \in {"x", "X"}
          THEN ReadDigits(Drop(u, 2), 16, 0, 0)
          ELSE ReadDigits(u, 10, 0, 0))

Signed(t) ==
    Unsigned(t # <<>> /\ Head(t) = "-",
             IF t # <<>> /\ Head(t) \in {"-", "+"} THEN Tail(t) ELSE t)

parseInt(s) == Signed(StripLeft(s))

\* A response header read with headers.get: null when absent.
NoHeader == [present |-> FALSE, v |-> <<>>]

HeaderOf(v) == [present |-> TRUE, v |-> v]

\* cl && parseInt(cl) > 30 * 1024 * 1024
\* NaN > n is false.
Greater(i, n) == ~i.nan /\ i.v > n

\* The size check with >= in place of >.
TooLargeOrEqual(cl) ==
    /\ cl.present
    /\ cl.v # <<>>
    /\ ~parseInt(cl.v).nan
    /\ parseInt(cl.v).v >= Threshold


TooLarge(cl) ==
    /\ cl.present
    /\ cl.v # <<>>
    /\ Greater(parseInt(cl.v), Threshold)

\* decodeURIComponent of one path segment: [ok, v]; a malformed escape
\* throws URIError.
DecodeTok(t) == IF t = "%20" THEN " " ELSE t

decodeURIComponent(seg) ==
    IF \E i \in 1..Len(seg) : seg[i] = "%zz" THEN [ok |-> FALSE, v |-> <<>>]
    ELSE [ok |-> TRUE, v |-> [i \in 1..Len(seg) |-> DecodeTok(seg[i])]]

\* "derive filename": the last piece of the pathname, decoded; 'download'
\* when it is empty or does not decode.
Decoded(last, dec) == IF last # <<>> /\ dec.ok THEN dec.v ELSE <<"download">>

NameOf(last) == Decoded(last, decodeURIComponent(last))

Filename(fileUrl) ==
    NameOf(Last(SplitOn(Pathname(ParseURL(fileUrl, FALSE, URLFailure)), "/")))

Disposition(filename) == <<"attachment; filename=\"">> \o filename \o <<"\"">>

\* ------------------------------------------------------------------------
\* Bounds and inputs
\* ------------------------------------------------------------------------

\* Longest origin body, in chunks.
MaxChunks == 2

\* Longest generated attribute value, in tokens.
MaxValLen == 3

U(scheme, host, rest) == <<scheme, "/", "/">> \o host \o rest

ExampleCom == <<"example", ".", "com">>

\* Values of req.query.url.  The empty sequence is the missing parameter
\* (undefined and '' take the same branch of `!target`).
Targets ==
    { <<>>,
      U("http:",  ExampleCom, <<"/", "page.html">>),
      U("https:", ExampleCom, <<"/", "path", "/", "to", "/", "movie.mp4">>),
      U("https:", ExampleCom, <<"/">>),
      U("https:", ExampleCom, <<"/", "localhost">>),
      U("https:", ExampleCom, <<"/", "a", "%20", "b">>),
      U("https:", ExampleCom, <<"/", "a", "%zz">>),
      U("http:",  <<"localhost">>, <<"/", "a">>),
      U("HTTP:",  <<"LOCALHOST">>, <<>>),
      U("http:",  <<"127", ".", "0", ".", "0", ".", "1">>, <<"/">>),
      U("http:",  <<"127", ".", "1">>, <<"/">>),
      U("http:",  <<"192", ".", "168", ".", "1", ".", "5">>, <<"/", "a">>),
      U("http:",  <<"192", ".", "168">>, <<"/">>),
      U("http:",  <<"10", ".", "0", ".", "0", ".", "1">>, <<"/">>),
      U("http:",  <<"svc", ".", "internal">>, <<"/", "a">>),
      U("https:", <<"svc", ".", "Internal">>, <<>>),
      U("http:",  <<"internal">>, <<"/">>),
      U("http:",  <<"svc", ".", "internal", ".">>, <<"/">>),
      U("ftp:",   <<"192", ".", "168", ".", "0", ".", "1">>, <<"/">>),
      U("foo:",   <<"localhost">>, <<"/", "x">>),
      U("foo:",   <<"LOCALHOST">>, <<"/", "x">>),
      <<"data:", "x">>,
      <<"http:", "/", "/">>,
      ExampleCom,
      <<"/", "page.html">> }

\* Values of an origin's content-type header ('' when absent).
ContentTypes ==
    { <<>>,
      <<"text/html">>,
      <<"text/html", "; charset=utf-8">>,
      <<"TEXT/HTML">>,
      <<"image/png">>,
      <<"video/mp4">>,
      <<"multipart/related; type=", "text/html">> }

\* Values of the HEAD response's content-length header, as characters.
ContentLengths ==
    { NoHeader,
      HeaderOf(<<>>),
      HeaderOf(<<"0">>),
      HeaderOf(<<"3", "1", "4", "5", "7", "2", "7", "9">>),
      HeaderOf(<<"3", "1", "4", "5", "7", "2", "8", "0">>),
      HeaderOf(<<"3", "1", "4", "5", "7", "2", "8", "1">>),
      HeaderOf(<<"3", "0", "4", "0", "8", "7", "0", "4">>),
      HeaderOf(<<"3", "2", "5", "0", "5", "8", "5", "6">>),
      HeaderOf(<<" ", "3", "1", "4", "5", "7", "2", "8", "1">>),
      HeaderOf(<<"3", "1", "4", "5", "7", "2", "8", "1", "x">>),
      HeaderOf(<<"-", "3", "1", "4", "5", "7", "2", "8", "1">>),
      HeaderOf(<<"0", "x", "1", "E", "0", "0", "0", "0", "1">>),
      HeaderOf(<<"x", "y">>) }

ChunkName(i) ==
    CASE i = 1 -> "c1" [] i = 2 -> "c2" [] i = 3 -> "c3" [] OTHER -> "cN"

\* An origin body of n chunks.
BodyOf(n) == [i \in 1..n |-> ChunkName(i)]

\* Tokens the generated attribute values are made of.
ValToks == {"/", ".", "?", "#", " ", "a", "http:", "JavaScript:", "data:"}

RECURSIVE SeqsUpTo(_, _)
SeqsUpTo(S, n) ==
    IF n = 0 THEN { <<>> }
    ELSE LET shorter == SeqsUpTo(S, n - 1)
         IN  shorter \cup { Append(s, t) : s \in shorter, t \in S }

\* Longer attribute values of the shapes pages carry.
ValSamples ==
    { <<"/", "x.mp4">>,
      <<".", ".", "/", "img.png">>,
      <<"a", "/", ".", ".", "/", ".", ".", "/", "b">>,
      <<"/", "/", "cdn", ".", "EXAMPLE", "/", "s.js">>,
      <<"/", "/", "/", "cdn", "/", "s.js">>,
      <<"/", "/", "127", ".", "1", "/", "s.js">>,
      <<"/", "/", "a", ".", "1", "/">>,
      <<"/", "/", "b", " ", "c", "/">>,
      U("https:", ExampleCom, <<"/", "x", "/", ".", ".", "/", "y", "?", "q", "#", "f">>),
      U("HTTP:", <<"EXAMPLE">>, <<>>),
      U("foo:", <<>>, <<"/", "a">>),
      <<"foo:", "/", "a", "/", ".", ".", "/", "/", "b">>,
      <<"http:", "x.mp4">>,
      <<"https:", "x.mp4">>,
      <<"https:">>,
      <<"mailto:", "me">>,
      <<"javascript:", "void">>,
      <<" ", "javascript:", "void">>,
      <<"DATA:", "x", " ", "y">>,
      <<"#", "top">>,
      <<"x", " ", "y", "?", "q", " ", "r", "#", "f", " ", "g">>,
      <<"?", "q">> }

AttrValues == SeqsUpTo(ValToks, MaxValLen) \cup ValSamples

Tags == {"a", "img", "script", "link", "video", "source", "iframe"}

Attrs == {"href", "src"}

\* Every value under every selector of the handler and under two pairs no
\* selector matches; the sample values under every pair.
Elements ==
    [tag : Tags, attr : Attrs, val : ValSamples]
      \cup { [tag |-> p.tag, attr |-> p.attr, val |-> v] :
                p \in { Calls[k] : k \in 1..Len(Calls) }
                        \cup { [tag |-> "iframe", attr |-> "src"],
                               [tag |-> "a", attr |-> "src"] },
                v \in AttrValues }

\* Documents with several elements.
DocSamples ==
    { <<>>,
      << [tag |-> "a", attr |-> "href", val |-> <<"/", "x.mp4">>] >>,
      << [tag |-> "a", attr |-> "href", val |-> <<"JavaScript:", "a">>],
         [tag |-> "img", attr |-> "src", val |-> <<".", ".", "/", "img.png">>],
         [tag |-> "iframe", attr |-> "src", val |-> <<"/", "x.mp4">>] >>,
      << [tag |-> "source", attr |-> "src", val |-> <<"https:">>],
         [tag |-> "source", attr |-> "href", val |-> <<"a">>],
         [tag |-> "video", attr |-> "src", val |-> <<>>],
         [tag |-> "link", attr |-> "href", val |-> <<"?", "q">>],
         [tag |-> "script", attr |-> "src", val |-> <<"/", "/", "cdn", ".", "EXAMPLE", "/", "s.js">>] >> }

\* Bases a page can have been fetched from.
Bases ==
    { ParseURL(t, FALSE, URLFailure) :
        t \in { U("http:", ExampleCom, <<"/", "dir", "/", "page.html">>),
                U("https:", ExampleCom, <<"/", "page.html", "?", "q", "#", "f">>),
                U("http:", <<"h">>, <<>>),
                U("https:", <<"h">>, <<"/", "a", "/", "b", "/">>) } }

\* ------------------------------------------------------------------------
\* State
\* ------------------------------------------------------------------------

VARIABLES
    endpoint,   \* "none", or the handler the request was routed to
    pc,         \* where the handler is: "idle", an await, or "done" (returned)
    target,     \* req.query.url
    res,        \* the response object (see NewRes)
    outbound,   \* the calls of fetch made so far, in order
    head,       \* the HEAD response of download.js
    resp,       \* the GET response (r)
    originPos,  \* chunks of r.body consumed so far
    originState,\* r.body: "none", "open", "ended" or "errored"
    piped,      \* r.body.pipe(res) is in effect
    reading,    \* the push() loop of download.js has a reader.read() pending
    stream,     \* the ReadableStream built by download.js: [state, queued]
    clientGone, \* the client closed the connection before the response ended
    posAtClose, \* originPos when it did
    htmlIn,     \* the elements of the page as fetched
    html,       \* the elements of the cheerio tree ($)
    baseUrl,    \* proxy.js `base`
    call        \* number of makeAbs calls made

vars == <<endpoint, pc, target, res, outbound, head, resp, originPos,
          originState, piped, reading, stream, clientGone, posAtClose,
          htmlIn, html, baseUrl, call>>

relayVars == <<originPos, originState, piped, reading, stream, clientGone,
               posAtClose>>

htmlVars == <<htmlIn, html, baseUrl, call>>

\* ------------------------------------------------------------------------
\* The response object (Node's ServerResponse with Next's helpers)
\* ------------------------------------------------------------------------

NoHeaders == [location |-> <<>>, contentType |-> <<>>, disposition |-> <<>>]

\* statusCode and headers are what the handler has set; sentStatus and
\* sentHeaders are what went out with the head of the response.  `late`
\* records a write, a header or a status after the end of the response.
NewRes ==
    [statusCode |-> 200, headers |-> NoHeaders, headersSent |-> FALSE,
     sentStatus |-> 0, sentHeaders |-> NoHeaders, body |-> <<>>,
     ended |-> FALSE, late |-> FALSE]

Status(r, code) ==
    IF r.headersSent THEN [r EXCEPT !.late = TRUE]
    ELSE [r EXCEPT !.statusCode = code]

SetHeader(r, name, v) ==
    IF r.headersSent THEN [r EXCEPT !.late = TRUE]
    ELSE [r EXCEPT !.headers[name] = v]

Flush(r) ==
    IF r.headersSent THEN r
    ELSE [r EXCEPT !.headersSent = TRUE, !.sentStatus = r.statusCode,
                   !.sentHeaders = r.headers]

Write(r, chunk) ==
    IF r.ended THEN [r EXCEPT !.late = TRUE]
    ELSE [Flush(r) EXCEPT !.body = Append(@, chunk)]

End(r) ==
    IF r.ended THEN [r EXCEPT !.late = TRUE]
    ELSE [Flush(r) EXCEPT !.ended = TRUE]

Send(r, text) == End(Write(r, text))

\* res.writeHead(code, { Location: v })
WriteHead(r, code, v) == Flush(SetHeader(Status(r, code), "location", v))

\* ------------------------------------------------------------------------
\* Origin
\* ------------------------------------------------------------------------

NoHead == [status |-> 0, cl |-> NoHeader]

NoResp == [status |-> 0, ct |-> <<>>, hasGetReader |-> FALSE,
           hasPipe |-> FALSE, len |-> 0, textOk |-> FALSE]

NoStream == [state |-> "none", queued |-> 0]

Statuses == {200, 404}

\* response.ok
Ok(status) == status >= 200 /\ status < 300

\* node-fetch rejects a URL that is neither http nor https ("Only HTTP(S)
\* protocols are supported").
Fetchable(t) == ParseURL(t, FALSE, URLFailure).scheme \in {"http:", "https:"}

StartsWith(s, p) == Len(s) >= Len(p) /\ SubSeq(s, 1, Len(p)) = p

EndsWith(s, p) == Len(s) >= Len(p) /\ SubSeq(s, Len(s) - Len(p) + 1, Len(s)) = p

Includes(s, t) == \E i \in 1..Len(s) : s[i] = t

\* proxy.js line 21
ProxyLocal(host) ==
    \/ host = <<"localhost">>
    \/ host = <<"127", ".", "0", ".", "0", ".", "1">>
    \/ StartsWith(host, <<"192", ".", "168", ".">>)
    \/ EndsWith(host, <<".", "internal">>)

\* download.js line 19
DownloadLocal(host) ==
    \/ host = <<"localhost">>
    \/ host = <<"127", ".", "0", ".", "0", ".", "1">>
    \/ StartsWith(host, <<"192", ".", "168", ".">>)

\* A content-type test that looks at the start of the value only.
IsHtmlPrefix(contentType) == StartsWith(contentType, <<"text/html">>)

\* proxy.js line 43: contentType.includes('text/html')
IsHtml(contentType) == Includes(contentType, "text/html")

Fetch(method, url) == [method |-> method, url |-> url]

\* ------------------------------------------------------------------------
\* pages/api/proxy.js
\* ------------------------------------------------------------------------

Init ==
    /\ endpoint = "none"
    /\ pc = "idle"
    /\ target = <<>>
    /\ res = NewRes
    /\ outbound = <<>>
    /\ head = NoHead
    /\ resp = NoResp
    /\ originPos = 0
    /\ originState = "none"
    /\ piped = FALSE
    /\ reading = FALSE
    /\ stream = NoStream
    /\ clientGone = FALSE
    /\ posAtClose = 0
    /\ htmlIn = <<>>
    /\ html = <<>>
    /\ baseUrl = URLFailure
    /\ call = 0

\* Lines 10-37: validation, then the call of fetch.
ProxyStart ==
    /\ pc = "idle"
    /\ \E t \in Targets : \E u \in {ParseURL(t, FALSE, URLFailure)} :
             /\ endpoint' = "proxy"
             /\ target' = t
             /\ IF t = <<>> THEN
                  /\ res' = Send(Status(res, 400), "Missing url query parameter")
                  /\ pc' = "done"
                  /\ outbound' = outbound
                ELSE IF ~u.ok THEN
                  /\ res' = Send(Status(res, 400), "Invalid URL")
                  /\ pc' = "done"
                  /\ outbound' = outbound
                ELSE IF ProxyLocal(Hostname(u)) THEN
                  /\ res' = Send(Status(res, 400), "Local addresses not allowed")
                  /\ pc' = "done"
                  /\ outbound' = outbound
                ELSE
                  /\ outbound' = Append(outbound, Fetch("GET", t))
                  /\ pc' = "awaitFetch"
                  /\ res' = res
    /\ UNCHANGED <<head, resp, relayVars, htmlVars>>

\* What the awaits of lines 31 and 41 can produce: fetch rejects, or it
\* resolves and r.text() rejects or gives the page.
ProxyOutcomes ==
    { [threw |-> TRUE, status |-> 0, ct |-> <<>>, textOk |-> FALSE, doc |-> <<>>] }
    \cup [threw : {FALSE}, status : Statuses, ct : ContentTypes,
          textOk : {FALSE}, doc : { <<>> }]
    \cup [threw : {FALSE}, status : Statuses, ct : ContentTypes,
          textOk : {TRUE}, doc : DocSamples]

\* Lines 31-122: the rest of the handler once fetch has settled.
ProxyFetchReturns ==
    /\ pc = "awaitFetch"
    /\ \E o \in ProxyOutcomes :
         /\ ~o.threw => Fetchable(target)
         /\ resp' = [NoResp EXCEPT !.status = o.status, !.ct = o.ct,
                                   !.textOk = o.textOk]
         /\ IF o.threw \/ ~o.textOk THEN
              /\ res' = Send(Status(res, 500), "Proxy fetch error")
              /\ UNCHANGED htmlVars
            ELSE IF ~IsHtml(o.ct) THEN
              /\ res' = End(SetHeader(Status(res, 302), "location", target))
              /\ UNCHANGED htmlVars
            ELSE
              /\ htmlIn' = o.doc
              /\ baseUrl' = ParseURL(target, FALSE, URLFailure)
              /\ html' = RewriteAll(o.doc, baseUrl')
              /\ call' = Len(Calls)
              /\ res' = Send(SetHeader(res, "contentType",
                                       <<"text/html; charset=utf-8">>),
                             "$.html()")
    /\ pc' = "done"
    /\ UNCHANGED <<endpoint, target, outbound, head, relayVars>>

\* One call of makeAbs (lines 56-75), for the rewriter taken alone.
MakeAbsCall ==
    /\ pc = "rewriting"
    /\ call < Len(Calls)
    /\ html' = makeAbs(html, Calls[call + 1].tag, Calls[call + 1].attr, baseUrl)
    /\ call' = call + 1
    /\ UNCHANGED <<endpoint, pc, target, res, outbound, head, resp, relayVars,
                   htmlIn, baseUrl>>

\* ------------------------------------------------------------------------
\* pages/api/download.js
\* ------------------------------------------------------------------------

\* download.js with the HEAD request issued before the host check.
DownloadStartHeadFirst ==
    /\ pc = "idle"
    /\ \E t \in Targets : \E u \in {ParseURL(t, FALSE, URLFailure)} :
             /\ endpoint' = "download"
             /\ target' = t
             /\ IF t = <<>> THEN
                  /\ res' = Send(Status(res, 400), "Missing url")
                  /\ pc' = "done"
                  /\ outbound' = outbound
                ELSE IF ~u.ok THEN
                  /\ res' = Send(Status(res, 500), "Download error")
                  /\ pc' = "done"
                  /\ outbound' = outbound
                ELSE IF DownloadLocal(Hostname(u)) THEN
                  /\ res' = Send(Status(res, 400), "Local addresses not allowed")
                  /\ pc' = "done"
                  /\ outbound' = Append(outbound, Fetch("HEAD", t))
                ELSE
                  /\ outbound' = Append(outbound, Fetch("HEAD", t))
                  /\ pc' = "awaitHead"
                  /\ res' = res
    /\ UNCHANGED <<head, resp, relayVars, htmlVars>>

\* Lines 10-27: validation, then the HEAD request.
DownloadStart ==
    /\ pc = "idle"
    /\ \E t \in Targets : \E u \in {ParseURL(t, FALSE, URLFailure)} :
             /\ endpoint' = "download"
             /\ target' = t
             /\ IF t = <<>> THEN
                  /\ res' = Send(Status(res, 400), "Missing url")
                  /\ pc' = "done"
                  /\ outbound' = outbound
                ELSE IF ~u.ok THEN
                  \* new URL throws inside the try: the catch of line 87
                  /\ res' = Send(Status(res, 500), "Download error")
                  /\ pc' = "done"
                  /\ outbound' = outbound
                ELSE IF DownloadLocal(Hostname(u)) THEN
                  /\ res' = Send(Status(res, 400), "Local addresses not allowed")
                  /\ pc' = "done"
                  /\ outbound' = outbound
                ELSE
                  /\ outbound' = Append(outbound, Fetch("HEAD", t))
                  /\ pc' = "awaitHead"
                  /\ res' = res
    /\ UNCHANGED <<head, resp, relayVars, htmlVars>>

HeadOutcomes ==
    { [threw |-> TRUE, status |-> 0, cl |-> NoHeader] }
    \cup [threw : {FALSE}, status : Statuses, cl : ContentLengths]

\* Lines 27-36: the size check, then the GET request.
DownloadHeadReturns ==
    /\ pc = "awaitHead"
    /\ \E o \in HeadOutcomes :
         /\ ~o.threw => Fetchable(target)
         /\ head' = [status |-> o.status, cl |-> o.cl]
         /\ IF o.threw THEN
              /\ res' = Send(Status(res, 500), "Download error")
              /\ pc' = "done"
              /\ outbound' = outbound
            ELSE IF TooLarge(o.cl) THEN
              /\ res' = End(WriteHead(res, 302, target))
              /\ pc' = "done"
              /\ outbound' = outbound
            ELSE
              /\ outbound' = Append(outbound, Fetch("GET", target))
              /\ pc' = "awaitGet"
              /\ res' = res
    /\ UNCHANGED <<endpoint, target, resp, relayVars, htmlVars>>

\* What the await of line 36 can produce.  r.body comes from the fetch
\* library: the handler calls its getReader (line 56) and tests its pipe
\* (line 80), so whether it has each is an input.  node-fetch's body is a
\* Node stream: pipe and no getReader.
GetOutcomes ==
    { [threw |-> TRUE, status |-> 0, ct |-> <<>>, hasGetReader |-> FALSE,
       hasPipe |-> FALSE, len |-> 0] }
    \cup [threw : {FALSE}, status : {404}, ct : { <<>> },
          hasGetReader : {FALSE}, hasPipe : {TRUE}, len : {0}]
    \cup [threw : {FALSE}, status : {200}, ct : { <<>>, <<"video/mp4">> },
          hasGetReader : BOOLEAN, hasPipe : BOOLEAN, len : 0..MaxChunks]

\* Lines 42-53: the attachment headers.
WithHeaders(r, fileUrl, ct) ==
    SetHeader(SetHeader(r, "disposition", Disposition(Filename(fileUrl))),
              "contentType",
              IF ct # <<>> THEN ct ELSE <<"application/octet-stream">>)

\* Lines 36-90: from the GET response to the return of the handler.
DownloadGetReturns ==
    /\ pc = "awaitGet"
    /\ \E o \in GetOutcomes : \E withHeaders \in {WithHeaders(res, target, o.ct)} :
             /\ resp' = [NoResp EXCEPT !.status = o.status, !.ct = o.ct,
                                       !.hasGetReader = o.hasGetReader,
                                       !.hasPipe = o.hasPipe, !.len = o.len]
             /\ IF o.threw THEN
                  /\ res' = Send(Status(res, 500), "Download error")
                  /\ UNCHANGED <<originState, reading, stream, piped>>
                ELSE IF ~Ok(o.status) THEN
                  /\ res' = Send(Status(res, 502), "Failed to fetch file")
                  /\ UNCHANGED <<originState, reading, stream, piped>>
                ELSE IF ~o.hasGetReader THEN
                  \* line 56: r.body.getReader is not a function
                  /\ res' = Send(Status(withHeaders, 500), "Download error")
                  /\ UNCHANGED <<originState, reading, stream, piped>>
                ELSE
                  \* lines 56-73: the reader is taken and push() has its
                  \* first read pending
                  /\ originState' = "open"
                  /\ reading' = TRUE
                  /\ stream' = [state |-> "readable", queued |-> 0]
                  /\ IF o.hasPipe THEN
                       /\ piped' = TRUE
                       /\ res' = withHeaders
                     ELSE
                       \* line 84: the body is locked by the reader, and
                       \* arrayBuffer rejects
                       /\ piped' = FALSE
                       /\ res' = Send(Status(withHeaders, 500), "Download error")
    /\ pc' = "done"
    /\ UNCHANGED <<endpoint, target, outbound, head, originPos, clientGone,
                   posAtClose, htmlVars>>

\* r.body.pipe(res): a chunk of the origin goes to the client.
PipeData ==
    /\ piped
    /\ originState = "open"
    /\ originPos < resp.len
    /\ res' = Write(res, ChunkName(originPos + 1))
    /\ originPos' = originPos + 1
    /\ UNCHANGED <<endpoint, pc, target, outbound, head, resp, originState,
                   piped, reading, stream, clientGone, posAtClose, htmlVars>>

\* Lines 60-67: reader.read() resolves with a chunk, which is enqueued, and
\* push() reads again.
ReaderRead ==
    /\ reading
    /\ originState = "open"
    /\ originPos < resp.len
    /\ stream' = [stream EXCEPT !.queued = @ + 1]
    /\ originPos' = originPos + 1
    /\ UNCHANGED <<endpoint, pc, target, res, outbound, head, resp, originState,
                   piped, reading, clientGone, posAtClose, htmlVars>>

\* The origin body ends: pipe ends the response, and reader.read() resolves
\* with done (lines 62-64).
OriginEnd ==
    /\ originState = "open"
    /\ originPos = resp.len
    /\ originState' = "ended"
    /\ res' = IF piped THEN End(res) ELSE res
    /\ piped' = FALSE
    /\ reading' = FALSE
    /\ stream' = [stream EXCEPT !.state = "closed"]
    /\ UNCHANGED <<endpoint, pc, target, outbound, head, resp, originPos,
                   clientGone, posAtClose, htmlVars>>

\* The origin body fails before its end: reader.read() rejects (lines
\* 68-71); pipe does nothing to its destination.
OriginError ==
    /\ originState = "open"
    /\ originState' = "errored"
    /\ reading' = FALSE
    /\ stream' = [stream EXCEPT !.state = "errored"]
    /\ UNCHANGED <<endpoint, pc, target, res, outbound, head, resp, originPos,
                   piped, clientGone, posAtClose, htmlVars>>

\* The client closes the connection during the relay: pipe unpipes.
ClientDisconnect ==
    /\ piped
    /\ ~res.ended
    /\ ~clientGone
    /\ clientGone' = TRUE
    /\ posAtClose' = originPos
    /\ piped' = FALSE
    /\ UNCHANGED <<endpoint, pc, target, res, outbound, head, resp, originPos,
                   originState, reading, stream, htmlVars>>

\* ------------------------------------------------------------------------
\* Specifications
\* ------------------------------------------------------------------------

Next ==
    \/ ProxyStart
    \/ ProxyFetchReturns
    \/ DownloadStart
    \/ DownloadHeadReturns
    \/ DownloadGetReturns
    \/ PipeData
    \/ ReaderRead
    \/ OriginEnd
    \/ OriginError
    \/ ClientDisconnect

Spec == Init /\ [][Next]_vars

\* The rewriter alone: a page of one element, or a sample page, and a base.
RewriteInit ==
    /\ endpoint = "proxy"
    /\ pc = "rewriting"
    /\ target = <<>>
    /\ res = NewRes
    /\ outbound = <<>>
    /\ head = NoHead
    /\ resp = NoResp
    /\ originPos = 0
    /\ originState = "none"
    /\ piped = FALSE
    /\ reading = FALSE
    /\ stream = NoStream
    /\ clientGone = FALSE
    /\ posAtClose = 0
    /\ htmlIn \in { <<e>> : e \in Elements } \cup DocSamples
    /\ html = htmlIn
    /\ baseUrl \in Bases
    /\ call = 0

RewriteNext == MakeAbsCall

RewriteSpec == RewriteInit /\ [][RewriteNext]_vars

\* ------------------------------------------------------------------------
\* Properties
\* ------------------------------------------------------------------------

\* new URL(target) of the request at hand.
TargetURL == ParseURL(target, FALSE, URLFailure)

\* The response is complete: status `code` and the one-line body `text`.
Answered(code, text) ==
    /\ res.ended
    /\ res.sentStatus = code
    /\ res.body = <<text>>

\* A host of the deny list of the URL Guard.
ForbiddenHost(host) ==
    \/ host = <<"localhost">>
    \/ host = <<"127", ".", "0", ".", "0", ".", "1">>
    \/ (Len(host) >= 4 /\ SubSeq(host, 1, 4) = <<"192", ".", "168", ".">>)
    \/ (Len(host) >= 2 /\ SubSeq(host, Len(host) - 1, Len(host)) = <<".", "internal">>)

ForbiddenTarget(u) == u.ok /\ ForbiddenHost(Hostname(u))

\* C1: on both endpoints a target whose hostname is localhost, 127.0.0.1,
\* begins with 192.168. or ends with .internal is answered 400 `Local
\* addresses not allowed` and is never fetched.
C1_ForbiddenHostRejected ==
    (endpoint # "none" /\ target # <<>> /\ ForbiddenTarget(TargetURL))
    => (outbound = <<>> /\ Answered(400, "Local addresses not allowed"))

\* C2: on both endpoints a request whose url parameter is missing or does
\* not parse as an absolute URL is answered with status 400, never a 5xx.
C2_InvalidUrlIs400 ==
    (endpoint # "none" /\ (target = <<>> \/ ~TargetURL.ok))
    => (res.ended /\ res.sentStatus = 400)

Digits == {"0", "1", "2", "3", "4", "5", "6", "7", "8", "9"}

AllDigits(s) == s # <<>> /\ \A i \in 1..Len(s) : s[i] \in Digits

RECURSIVE Decimal(_)
Decimal(s) == IF s = <<>> THEN 0 ELSE 10 * Decimal(Front(s)) + DigitVal(Last(s))

\* The HEAD response carries a content-length greater than 30 MiB: the
\* integer the header begins with, if it begins with one.
DeclaredLarge(cl) == cl.present /\ ~parseInt(cl.v).nan /\ parseInt(cl.v).v > 30 * 1024 * 1024

Redirected ==
    /\ res.ended
    /\ res.sentStatus = 302
    /\ res.sentHeaders.location = target
    /\ res.body = <<>>

C4_AttachmentDelivered ==
    (endpoint = "download" /\ Ok(resp.status) /\ res.ended)
    => /\ res.sentStatus = 200
       /\ res.sentHeaders.disposition = Disposition(Filename(target))
       /\ res.sentHeaders.contentType =
            (IF resp.ct # <<>> THEN resp.ct ELSE <<"application/octet-stream">>)
       /\ res.body = BodyOf(resp.len)

\* The page has been fetched and read.
PageRead == endpoint = "proxy" /\ pc = "done" /\ resp.textOk

ProxyRedirected == Redirected /\ html = <<>> /\ call = 0

ProxyRewritten ==
    /\ res.ended
    /\ res.sentStatus = 200
    /\ res.sentHeaders.contentType = <<"text/html; charset=utf-8">>
    /\ res.body = <<"$.html()">>
    /\ html = RewriteAll(htmlIn, TargetURL)

ProxyUpstreamFailed ==
    endpoint = "proxy" /\ pc = "done" /\ outbound # <<>> /\ ~Ok(resp.status)

\* C6: when the outbound request fails or the origin answers non-2xx the
\* client receives a 5xx (/proxy: 500 `Proxy fetch error`; /download: 502
\* `Failed to fetch file` for a non-success GET, 500 `Download error` for a
\* thrown failure), never a 200.
C6_UpstreamFailureIs5xx ==
    /\ ProxyUpstreamFailed => Answered(500, "Proxy fetch error")
    /\ (endpoint = "download" /\ pc = "done" /\ Len(outbound) = 2)
       => /\ resp.status = 0 => Answered(500, "Download error")
          /\ (resp.status # 0 /\ ~Ok(resp.status))
             => Answered(502, "Failed to fetch file")
    /\ (endpoint = "download" /\ pc = "done" /\ Len(outbound) = 1
        /\ head.status = 0)
       => Answered(500, "Download error")

\* The six rewritten classes.
Rewritten(el) ==
    \/ el.tag \in {"a", "link"} /\ el.attr = "href"
    \/ el.tag \in {"img", "script", "video", "source"} /\ el.attr = "src"

Exempt(val) ==
    \/ val = <<>>
    \/ Head(val) = "#"
    \/ Head(val) \in {"data:", "DATA:", "mailto:", "javascript:", "JavaScript:"}

Resolved(u, val) == IF u.ok THEN Href(u) ELSE val

\* What the claim says of one element.
RewrittenAsClaimed(before, after, base) ==
    /\ after.tag = before.tag
    /\ after.attr = before.attr
    /\ after.val = IF ~Rewritten(before) \/ Exempt(before.val) THEN before.val
                   ELSE Resolved(ParseURL(before.val, TRUE, base), before.val)

\* C7: after the six calls of makeAbs, every element of the six classes
\* whose value is not empty and carries none of the prefixes data:, mailto:,
\* javascript:, # holds the resolution of its value against the base; an
\* empty or prefixed value, and one that does not resolve, is unchanged; and
\* rewriting the result again changes nothing.
C7_Absolutized ==
    call = Len(Calls)
    => /\ Len(html) = Len(htmlIn)
       /\ \A i \in 1..Len(htmlIn) : RewrittenAsClaimed(htmlIn[i], html[i], baseUrl)
       /\ RewriteAll(html, baseUrl) = html

\* A relative reference has been made absolute.
C7_Witness ==
    /\ pc = "rewriting"
    /\ call = Len(Calls)
    /\ Len(htmlIn) = 1
    /\ htmlIn[1].tag = "img"
    /\ htmlIn[1].val = <<".", ".", "/", "img.png">>
    /\ html[1].val = U("http:", ExampleCom, <<"/", "img.png">>)

\* C8: a request answered 400 has issued no outbound request, at any point.
C8_NoFetchBefore400 ==
    /\ res.sentStatus = 400 => outbound = <<>>
    /\ outbound # <<>> => (target # <<>> /\ TargetURL.ok)

\* /download has refused a local address.
C8_Witness ==
    /\ endpoint = "download"
    /\ Answered(400, "Local addresses not allowed")
    /\ outbound = <<>>

====
